---- MODULE Spec2Model ----
(***************************************************************************)
(* pkptools: pkpextract.py (segmentation of a decompressed .pkp container  *)
(* into a pdf part and a python part, per-file statistics) and the         *)
(* writeHead method of pkphead.py.                                         *)
(*                                                                         *)
(* A bytes object is a sequence of one-byte tokens (a one-character string *)
(* per byte; "SOH" is the byte 0x01, "NUL" the byte 0x00, "LF" the byte    *)
(* 0x0A).  Offsets are the 0-based offsets of Python; -1 is "not found".   *)
(***************************************************************************)
EXTENDS Integers, Sequences, FiniteSets

VARIABLES
    inFiles,     \* decompressed content of each input file, in inFileNames order
    options,     \* PkpToolsOptions
    count,       \* number of input files the loop of run() has gone through
    statsData,   \* List[StatRow]
    statsFile,   \* the lines written to the statistics file
    rejected,    \* PkpTools.rejected: names of the files whose python part is broken
    outFiles,    \* the files written in outdir: <<input name, ext, content>>
    pc,          \* "running", "done", "oserror" (main caught OSError), "crashed"
    last,        \* what processing the last input file did
    headsize,    \* PkpHeadOptions.headsize
    headfh,      \* the bytes written so far to the head-concatenation stream
    heads        \* the head segments passed to writeHead so far

vars == <<inFiles, options, count, statsData, statsFile, rejected, outFiles,
          pc, last, headsize, headfh, heads>>

(***************************************************************************)
(* Python sequence primitives                                              *)
(***************************************************************************)
Min(S) == CHOOSE x \in S : \A y \in S : x <= y

Max(S) == CHOOSE x \in S : \A y \in S : x >= y

\* A slice index of Python, clamped into 0..n (negative counts from the end).
SliceIndex(i, n) ==
    IF i < 0 THEN (IF i + n < 0 THEN 0 ELSE i + n)
    ELSE IF i > n THEN n ELSE i

\* buf[a:b]
Slice(buf, a, b) ==
    SubSeq(buf, SliceIndex(a, Len(buf)) + 1, SliceIndex(b, Len(buf)))

\* buf[:a]
SliceTo(buf, a) == SubSeq(buf, 1, SliceIndex(a, Len(buf)))

\* buf[b:]
SliceFrom(buf, b) == SubSeq(buf, SliceIndex(b, Len(buf)) + 1, Len(buf))

\* pat occurs in buf at 0-based offset i
OccursAt(buf, pat, i) ==
    /\ i >= 0
    /\ i + Len(pat) <= Len(buf)
    /\ \A k \in 1..Len(pat) : buf[i + k] = pat[k]

\* buf.find(pat, start), start >= 0
Find(buf, pat, start) ==
    LET hits == {i \in start..(Len(buf) - Len(pat)) : OccursAt(buf, pat, i)}
    IN  IF hits = {} THEN -1 ELSE Min(hits)

(***************************************************************************)
(* Byte strings of the program                                             *)
(***************************************************************************)
PDF_START == <<"%", "P", "D", "F", "-">>

PDF_EOF == <<"%", "%", "E", "O", "F">>

IMPORT_SP == <<"i", "m", "p", "o", "r", "t", " ">>

FROM_SP == <<"f", "r", "o", "m", " ">>

SP_IMPORT == <<" ", "i", "m", "p", "o", "r", "t">>

SOH == <<"SOH">>

BROKEN_PYTHON_FILE_EXT == ".with-errors.py"

\* \w of an re.ASCII bytes pattern, or a dot: the class (\w|\.)
WordOrDot(b) ==
    b \in {"a", "b", "d", "e", "f", "i", "m", "o", "p", "r", "s", "t", "x", "y",
           "D", "E", "F", "O", "P", "_", "0", "1", "."}

(***************************************************************************)
(* Span finder primitives                                                  *)
(***************************************************************************)
\* _pdfEndRE.search(buf, pos): the end of the first %%EOF at or after pos
pdfPartMaybeEnd(buf, pos) ==
    LET at == Find(buf, PDF_EOF, pos)
    IN  IF at = -1 THEN -1 ELSE at + Len(PDF_EOF)

pdfPartEnd_FirstEOF(buf, pos) == pdfPartMaybeEnd(buf, pos)

pdfPartEnd(buf, pos) ==
    LET halfEnd == pdfPartMaybeEnd(buf, pos)
    IN  IF halfEnd = -1 THEN -1 ELSE pdfPartMaybeEnd(buf, halfEnd)

\* the end of the longest run of (\w|\.) bytes that starts at offset i
RunEnd(buf, i) ==
    LET stops == {j \in i..Len(buf) : j = Len(buf) \/ ~WordOrDot(buf[j + 1])}
    IN  Min(stops)

\* _pythonStartRE matches at offset i: (from (\w|\.)+ import)|(import (\w|\.)+)
pythonStartMatchAt(buf, i) ==
    \/ /\ OccursAt(buf, FROM_SP, i)
       /\ RunEnd(buf, i + Len(FROM_SP)) > i + Len(FROM_SP)
       /\ OccursAt(buf, SP_IMPORT, RunEnd(buf, i + Len(FROM_SP)))
    \/ /\ OccursAt(buf, IMPORT_SP, i)
       /\ RunEnd(buf, i + Len(IMPORT_SP)) > i + Len(IMPORT_SP)

\* _pythonStartRE.search(buf, pos).start(), -1 for no match
pythonStartSearch(buf, pos) ==
    LET hits == {i \in pos..Len(buf) : pythonStartMatchAt(buf, i)}
    IN  IF hits = {} THEN -1 ELSE Min(hits)

BACKWARD_LOOKUP_LEN == 25

\* The result of a start finder: raised is TRUE when it raises WeirdFileError.
Found(pos) == [raised |-> FALSE, pos |-> pos]

Raised == [raised |-> TRUE, pos |-> -1]

pythonPartStart(buf) ==
    LET importPos == Find(buf, IMPORT_SP, 0)
    IN  IF importPos = -1 THEN Found(-1)
        ELSE IF importPos < BACKWARD_LOOKUP_LEN THEN Raised
        ELSE Found(pythonStartSearch(buf, importPos - BACKWARD_LOOKUP_LEN))

\* lambda x: x.find(b"%PDF-")
pdfPartStart(buf) == Found(Find(buf, PDF_START, 0))

\* lambda x, start: x.find(b"\x01", start)
pythonPartEnd(buf, start) == Find(buf, SOH, start)

(***************************************************************************)
(* Segmentation engine                                                     *)
(***************************************************************************)
\* The finder functions a SplittingFinder was made with (lines 144-145):
\* finder is "pdf" for pdfFinder and "python" for pythonFinder.
find_start(finder, buf) ==
    IF finder = "pdf" THEN pdfPartStart(buf) ELSE pythonPartStart(buf)

find_end(finder, buf, start) ==
    IF finder = "pdf" THEN pdfPartEnd(buf, start) ELSE pythonPartEnd(buf, start)

find_range_Sentinel(buf, finder) ==
    LET s == find_start(finder, buf)
    IN  IF s.raised THEN [raised |-> TRUE, span |-> <<-1, -1>>]
        ELSE IF s.pos = -1 \/ find_end(finder, buf, s.pos) = -1
             THEN [raised |-> FALSE, span |-> <<-1, -1>>]
        ELSE [raised |-> FALSE, span |-> <<s.pos, find_end(finder, buf, s.pos)>>]

\* A WeirdFileError of find_start goes through find_range (raised).
find_range(buf, finder) ==
    LET s == find_start(finder, buf)
    IN  IF s.raised THEN [raised |-> TRUE, span |-> <<-1, -1>>]
        ELSE IF s.pos = -1 THEN [raised |-> FALSE, span |-> <<-1, -1>>]
        ELSE [raised |-> FALSE, span |-> <<s.pos, find_end(finder, buf, s.pos)>>]

splitBuf_TailFromZero(buf, range) ==
    [head |-> SliceTo(buf, range[1]),
     body |-> Slice(buf, range[1], range[2]),
     tail |-> SliceFrom(buf, IF range[2] < 0 THEN 0 ELSE range[2])]

splitBuf(buf, range) ==
    [head |-> SliceTo(buf, range[1]),
     body |-> Slice(buf, range[1], range[2]),
     tail |-> SliceFrom(buf, range[2])]

rangeSize_Inclusive(x) == x[2] - x[1] + 1

rangeSize(x) == x[2] - x[1]

\* SplittingFinder.__call__
SplittingFinder(finder, buf) ==
    LET r == find_range(buf, finder)
    IN  [raised |-> r.raised,
         size   |-> rangeSize(r.span),
         span   |-> r.span,
         slices |-> splitBuf(buf, r.span)]

pdfFinder(buf) == SplittingFinder("pdf", buf)

pythonFinder(buf) == SplittingFinder("python", buf)

(***************************************************************************)
(* Source validator                                                        *)
(***************************************************************************)
\* pythonPartIsbroken: the error message, "" for none.  ast.parse is the
\* library's parser: parseFails says whether it raises on this source; it
\* accepts the empty source (an empty module).
pythonPartIsbroken_RejectEmpty(source, parseFails) ==
    IF source = <<>> \/ parseFails THEN "error" ELSE ""

pythonPartIsbroken(source, parseFails) ==
    IF source # <<>> /\ parseFails THEN "error" ELSE ""

(***************************************************************************)
(* PkpToolsOptions.__init__ (quiet only selects what is printed)           *)
(***************************************************************************)
PkpToolsOptions(args) ==
    [write_unzipped |-> args.write_unzipped,
     write_pdf      |-> ~args.nopdf,
     check_python   |-> args.check_python,
     write_python   |-> ~args.nopython /\ ~args.check_python]

Args == [write_unzipped : BOOLEAN, nopdf : BOOLEAN, nopython : BOOLEAN,
         check_python : BOOLEAN]

(***************************************************************************)
(* PkpTools.processBuf                                                     *)
(***************************************************************************)
Write(ext, data) == [ext |-> ext, data |-> data]

\* line 270: python in the head
pythonInHead_NonNegative(pythonSize) == pythonSize >= 0

pythonInHead(pythonSize) == pythonSize > 0

\* lines 280-290: the python part is checked, then written
checkPython_AlwaysPy(opts, status, body, parseFails) ==
    IF opts.write_python \/ opts.check_python
    THEN [validated |-> TRUE,
          error  |-> pythonPartIsbroken(body, parseFails),
          status |-> status,
          writes |-> IF opts.write_python THEN <<Write(".py", body)>> ELSE <<>>]
    ELSE [validated |-> FALSE, error |-> "", status |-> status, writes |-> <<>>]

checkPython(opts, status, body, parseFails) ==
    IF opts.write_python \/ opts.check_python
    THEN LET error == pythonPartIsbroken(body, parseFails)
         IN  IF error # ""
             THEN [validated |-> TRUE, error |-> error, status |-> "ERROR",
                   writes |-> <<Write(BROKEN_PYTHON_FILE_EXT, body)>>]
             ELSE [validated |-> TRUE, error |-> error, status |-> status,
                   writes |-> IF opts.write_python
                              THEN <<Write(".py", body)>> ELSE <<>>]
    ELSE [validated |-> FALSE, error |-> "", status |-> status, writes |-> <<>>]

\* The first write of plan to a file with extension failExt, 0 for none.
FailsAt(plan, failExt) ==
    LET at == {k \in 1..Len(plan) : plan[k].ext = failExt}
    IN  IF at = {} THEN 0 ELSE Min(at)

\* processBuf on buf, given what its three finder calls return: pdf (line 265),
\* inHead (line 269) and, when it comes to it, inTail (line 276).
\* parseFails: ast.parse raises on the python part.
\* failExt: writeToFile raises OSError on the first file with this extension.
\* outcome: "return", or the exception that leaves processBuf.  When
\* pythonFinder raises WeirdFileError on the head of the pdf, pythonSize has
\* no value at the return statement (line 296): UnboundLocalError.
processBuf(opts, buf, pdf, inHead, inTail, parseFails, failExt) ==
    LET pyFirst == ~inHead.raised /\ pythonInHead(inHead.size)
        weird   == IF inHead.raised THEN "head"
                   ELSE IF ~pyFirst /\ inTail.raised THEN "tail" ELSE "none"
        python  == IF pyFirst THEN inHead ELSE inTail
        classified == IF pyFirst THEN "pythonFirst" ELSE "pdfFirst"
        five    == IF pyFirst
                   THEN <<inHead.slices.head, inHead.slices.body, inHead.slices.tail,
                          pdf.slices.body, pdf.slices.tail>>
                   ELSE <<pdf.slices.head, pdf.slices.body, inTail.slices.head,
                          inTail.slices.body, inTail.slices.tail>>
        check   == checkPython(opts, classified, python.slices.body, parseFails)
        before  == (IF opts.write_unzipped THEN <<Write(".unzipped", buf)>> ELSE <<>>)
                   \o (IF opts.write_pdf THEN <<Write(".pdf", pdf.slices.body)>> ELSE <<>>)
        plan    == IF weird = "none"
                   THEN before \o <<Write(".head", five[1])>> \o check.writes
                   ELSE before
        failAt  == FailsAt(plan, failExt)
        checked == weird = "none" /\ (failAt = 0 \/ failAt > Len(before) + 1)
    IN  [outcome    |-> IF failAt > 0 THEN "OSError"
                        ELSE IF weird = "head" THEN "UnboundLocalError"
                        ELSE "return",
         pdf        |-> pdf,
         inHead     |-> inHead,
         tailTried  |-> ~inHead.raised /\ ~pyFirst,
         inTail     |-> inTail,
         weird      |-> weird,
         classified |-> IF inHead.raised THEN "none" ELSE classified,
         validated  |-> checked /\ check.validated,
         error      |-> IF checked THEN check.error ELSE "",
         status     |-> IF weird # "none" THEN "ERROR" ELSE check.status,
         pdfSize    |-> pdf.size,
         pythonSize |-> IF weird = "tail" THEN inHead.size ELSE python.size,
         writes     |-> IF failAt > 0 THEN SubSeq(plan, 1, failAt - 1) ELSE plan]

(***************************************************************************)
(* PkpTools.writeStats, PkpTools.writeStatsSummary                         *)
(* (time_elapsed, a reading of the clock, is left out of the rows)         *)
(***************************************************************************)
inFileNames == [i \in 1..Len(inFiles) |-> i]

StatRow(bufLen, pdfSize, pythonSize) ==
    [bufLen |-> bufLen, pdfSize |-> pdfSize, pythonSize |-> pythonSize]

StatLine(fileName, bufLen, status, pdfSize, pythonSize) ==
    [kind |-> "row", name |-> fileName, bufLen |-> bufLen, status |-> status,
     pdfSize |-> pdfSize, pythonSize |-> pythonSize]

SummaryLine(kind, value, name) == [kind |-> kind, value |-> value, name |-> name]

Separator == SummaryLine("separator", 0, 0)

\* The loop of writeStatsSummary over zip(names, rows), from pair k on.
RECURSIVE SummaryLoop(_, _, _, _)
SummaryLoop(names, rows, k, acc) ==
    IF k > Len(names) \/ k > Len(rows) THEN acc
    ELSE LET r == rows[k]
             maxBufLen == IF r.bufLen > acc.maxBufLen[1]
                          THEN <<r.bufLen, names[k]>> ELSE acc.maxBufLen
             minBufLen == IF r.bufLen < acc.minBufLen[1]
                          THEN <<r.bufLen, names[k]>> ELSE acc.minBufLen
         IN  SummaryLoop(names, rows, k + 1,
                         [totBufLen |-> acc.totBufLen + r.bufLen,
                          maxBufLen |-> maxBufLen,
                          minBufLen |-> minBufLen])

\* The lines writeStatsSummary appends to the statistics file.
writeStatsSummary_TotalFromFirst(names, rows) ==
    IF rows = <<>> THEN <<Separator>>
    ELSE LET first == <<rows[1].bufLen, names[1]>>
             acc   == SummaryLoop(names, rows, 1,
                                  [totBufLen |-> rows[1].bufLen, maxBufLen |-> first,
                                   minBufLen |-> first])
         IN  <<Separator,
               SummaryLine("number of files", Len(names), 0),
               SummaryLine("max bufLen", acc.maxBufLen[1], acc.maxBufLen[2]),
               SummaryLine("min bufLen", acc.minBufLen[1], acc.minBufLen[2]),
               SummaryLine("total unzipped size", acc.totBufLen, 0),
               SummaryLine("average unzipped size", acc.totBufLen \div Len(rows), 0)>>

writeStatsSummary(names, rows) ==
    IF rows = <<>> THEN <<Separator>>
    ELSE LET first == <<rows[1].bufLen, names[1]>>
             acc   == SummaryLoop(names, rows, 1,
                                  [totBufLen |-> 0, maxBufLen |-> first,
                                   minBufLen |-> first])
         IN  <<Separator,
               SummaryLine("number of files", Len(names), 0),
               SummaryLine("max bufLen", acc.maxBufLen[1], acc.maxBufLen[2]),
               SummaryLine("min bufLen", acc.minBufLen[1], acc.minBufLen[2]),
               SummaryLine("total unzipped size", acc.totBufLen, 0),
               SummaryLine("average unzipped size", acc.totBufLen \div Len(rows), 0)>>

(***************************************************************************)
(* Input buffers                                                           *)
(***************************************************************************)
MaxFiles == 2

MaxEOF == 3

MaxPadExtra == 1

Repeat(pat, n) == [i \in 1..(n * Len(pat)) |-> pat[((i - 1) % Len(pat)) + 1]]

Pad(n) == Repeat(<<"x">>, n)

IMPORT_OS == IMPORT_SP \o <<"o", "s">>

FROM_A_IMPORT == FROM_SP \o <<"a">> \o SP_IMPORT

\* nothing, or a run of filler bytes about as long as the look-back window
Pads ==
    {<<>>} \cup {Pad(BACKWARD_LOOKUP_LEN - 1 + k) : k \in 0..MaxPadExtra}

\* python parts, whole or lacking one of their marks
Scripts ==
    {<<>>,
     SOH,
     IMPORT_OS,
     IMPORT_OS \o SOH,
     SOH \o IMPORT_OS,
     FROM_A_IMPORT \o <<" ">> \o <<"o", "s">> \o SOH,
     FROM_A_IMPORT \o <<"LF">> \o SOH,
     IMPORT_SP \o SOH}

TailScripts == {<<>>, IMPORT_OS, IMPORT_OS \o SOH}

\* pdf parts with 0..MaxEOF %%EOF marks, and one with a %%EOF before %PDF-
Pdfs ==
    {<<>>, PDF_EOF \o PDF_START \o PDF_EOF \o PDF_EOF}
    \cup {PDF_START \o Repeat(<<"1">> \o PDF_EOF, k) : k \in 0..MaxEOF}

Buffers ==
    {pre \o s1 \o pdf \o mid \o s2 :
        pre \in Pads, s1 \in Scripts, pdf \in Pdfs,
        mid \in {<<>>, Pad(BACKWARD_LOOKUP_LEN)}, s2 \in TailScripts}

\* The buffers of the input files of a whole run: one without any part,
\* one python-first, one pdf-first, and one for each place where
\* pythonPartStart raises.
RunBuffers ==
    {Pad(BACKWARD_LOOKUP_LEN - 1),
     Pad(BACKWARD_LOOKUP_LEN) \o IMPORT_OS \o SOH \o PDF_START \o PDF_EOF \o PDF_EOF,
     PDF_START \o PDF_EOF \o PDF_EOF \o Pad(BACKWARD_LOOKUP_LEN) \o IMPORT_OS \o SOH,
     IMPORT_OS \o SOH \o PDF_START \o PDF_EOF \o PDF_EOF,
     PDF_START \o PDF_EOF \o PDF_EOF \o IMPORT_OS \o SOH}

FailPoints ==
    {"none", "gzip", ".unzipped", ".pdf", ".head", BROKEN_PYTHON_FILE_EXT, ".py"}

(***************************************************************************)
(* PkpTools.run under main                                                 *)
(***************************************************************************)
NoFile == [index |-> 0, io |-> "none", outcome |-> "none"]

Written(i, r) == {<<i, r.writes[k].ext, r.writes[k].data>> : k \in 1..Len(r.writes)}

\* processBuf returned r for input file i: writeStats, and on to the next file.
Returned(i, r) ==
    /\ r.outcome = "return"
    /\ last' = [index |-> i, io |-> "none", outcome |-> "return", r |-> r]
    /\ outFiles' = outFiles \cup Written(i, r)
    /\ rejected' = IF r.error # "" THEN Append(rejected, i) ELSE rejected
    /\ statsFile' = Append(statsFile,
           StatLine(i, Len(inFiles[i]), r.status, r.pdfSize, r.pythonSize))
    /\ statsData' = Append(statsData, StatRow(Len(inFiles[i]), r.pdfSize, r.pythonSize))
    /\ count' = i
    /\ pc' = pc

\* gzip.open or read raised OSError on input file i: main prints it and ends.
GzipFailed(i) ==
    /\ last' = [index |-> i, io |-> "gzip", outcome |-> "OSError"]
    /\ pc' = "oserror"
    /\ UNCHANGED <<count, statsData, statsFile, rejected, outFiles>>

\* A writeToFile of processBuf raised OSError: main prints it and ends.
WriteFailed(i, r, failExt) ==
    /\ r.outcome = "OSError"
    /\ last' = [index |-> i, io |-> failExt, outcome |-> "OSError", r |-> r]
    /\ outFiles' = outFiles \cup Written(i, r)
    /\ rejected' = IF r.error # "" THEN Append(rejected, i) ELSE rejected
    /\ pc' = "oserror"
    /\ UNCHANGED <<count, statsData, statsFile>>

\* Another exception left processBuf: main prints it and raises it again.
Crashed(i, r) ==
    /\ r.outcome = "UnboundLocalError"
    /\ last' = [index |-> i, io |-> "none", outcome |-> r.outcome, r |-> r]
    /\ outFiles' = outFiles \cup Written(i, r)
    /\ pc' = "crashed"
    /\ UNCHANGED <<count, statsData, statsFile, rejected>>

\* One turn of the loop of run().  The finder calls of processBuf are made
\* here, each once, and their results handed to processBuf.
RunFile ==
    /\ pc = "running"
    /\ count < Len(inFiles)
    /\ \E buf \in {inFiles[count + 1]} :
       \E pdf \in {pdfFinder(buf)} :
       \E inHead \in {pythonFinder(pdf.slices.head)} :
       \E inTail \in {pythonFinder(pdf.slices.tail)} :
       \E parseFails \in BOOLEAN, failExt \in FailPoints :
          IF failExt = "gzip" THEN GzipFailed(count + 1)
          ELSE \E r \in {processBuf(options, buf, pdf, inHead, inTail,
                                    parseFails, failExt)} :
                  \/ Returned(count + 1, r)
                  \/ WriteFailed(count + 1, r, failExt)
                  \/ Crashed(count + 1, r)
    /\ UNCHANGED <<inFiles, options, headsize, headfh, heads>>

\* The end of the loop: writeStatsSummary.
RunSummary ==
    /\ pc = "running"
    /\ count = Len(inFiles)
    /\ statsFile' = statsFile \o writeStatsSummary(inFileNames, statsData)
    /\ pc' = "done"
    /\ UNCHANGED <<inFiles, options, count, statsData, rejected, outFiles, last,
                   headsize, headfh, heads>>

FileLists(S, n) == UNION {[1..k -> S] : k \in 0..n}

InitRun(lists, argsets) ==
    /\ inFiles \in lists
    /\ options \in {PkpToolsOptions(args) : args \in argsets}
    /\ count = 0
    /\ statsData = <<>>
    /\ statsFile = <<>>
    /\ rejected = <<>>
    /\ outFiles = {}
    /\ pc = "running"
    /\ last = NoFile
    /\ headsize = 0
    /\ headfh = <<>>
    /\ heads = <<>>

\* A run over up to MaxFiles input files.
Init == InitRun(FileLists(RunBuffers, MaxFiles), Args)

Next == RunFile \/ RunSummary

Spec == Init /\ [][Next]_vars

\* A run over one input file, of any content in Buffers, that writes
\* neither the unzipped copy nor the pdf.
InitBuf ==
    InitRun({<<b>> : b \in Buffers},
            {args \in Args : ~args.write_unzipped /\ args.nopdf})

SpecBuf == InitBuf /\ [][Next]_vars

(***************************************************************************)
(* PkpHead.writeHead (pkphead.py)                                          *)
(***************************************************************************)
MaxHeadLen == 2

MaxHeadSize == 3

MaxCalls == 2

NUL == <<"NUL">>

\* The bytes one call of writeHead writes to headfh.
writeHead_NoPadding(head, hsz) ==
    IF Len(head) < hsz THEN head ELSE SliceTo(head, hsz)

writeHead(head, hsz) ==
    IF Len(head) < hsz
    THEN head \o Repeat(NUL, hsz - Len(head))
    ELSE SliceTo(head, hsz)

Heads == UNION {[1..k -> {"a", "b"}] : k \in 0..MaxHeadLen}

\* --headsize is any int
HeadSizes == (0 - 1)..MaxHeadSize

WriteHead ==
    /\ Len(heads) < MaxCalls
    /\ \E head \in Heads :
         /\ headfh' = headfh \o writeHead(head, headsize)
         /\ heads' = Append(heads, head)
    /\ UNCHANGED <<inFiles, options, count, statsData, statsFile, rejected,
                   outFiles, pc, last, headsize>>

InitHead ==
    /\ inFiles = <<>>
    /\ options = PkpToolsOptions([write_unzipped |-> FALSE, nopdf |-> FALSE,
                                  nopython |-> FALSE, check_python |-> FALSE])
    /\ count = 0
    /\ statsData = <<>>
    /\ statsFile = <<>>
    /\ rejected = <<>>
    /\ outFiles = {}
    /\ pc = "running"
    /\ last = NoFile
    /\ headsize \in HeadSizes
    /\ headfh = <<>>
    /\ heads = <<>>

NextHead == WriteHead

SpecHead == InitHead /\ [][NextHead]_vars

(***************************************************************************)
(* Properties                                                              *)
(***************************************************************************)
\* processBuf was called on the last input file and no writeToFile failed
Processed == last.index > 0 /\ last.io = "none"

LastBuf == inFiles[last.index]

\* the line of the statistics file for the last input file
LastRow == statsFile[last.index]

\* C1: whenever the script-start search raises WeirdFileError on a file, in
\* the head attempt or in the tail attempt, processBuf returns ERROR, the
\* file gets a line with status ERROR in the statistics file, and the run
\* goes on.
C1_MalformedContainerIsRecorded ==
    (Processed /\ last.r.weird # "none")
        => /\ last.outcome = "return"
           /\ last.r.status = "ERROR"
           /\ pc \in {"running", "done"}
           /\ Len(statsData) >= last.index
           /\ LastRow.kind = "row" /\ LastRow.name = last.index
           /\ LastRow.status = "ERROR"

\* C2: an OSError of the decompression or of an output write on a file is
\* recorded as a line with status ERROR for the file, and the run goes on.
C2_IOFailureIsRecorded ==
    (last.index > 0 /\ last.io # "none")
        => /\ pc \in {"running", "done"}
           /\ Len(statsData) >= last.index
           /\ LastRow.kind = "row" /\ LastRow.name = last.index
           /\ LastRow.status = "ERROR"

Offsets(b) == 0..Len(b)

\* a script-style statement, 'from <dotted-id> import' or 'import <dotted-id>'
HasStatement(b) == \E i \in Offsets(b) : pythonStartMatchAt(b, i)

\* an 'import ' literal within BACKWARD_LOOKUP_LEN bytes of the start of b
ImportNearStart(b) ==
    \E p \in 0..(BACKWARD_LOOKUP_LEN - 1) : OccursAt(b, IMPORT_SP, p)

\* b holds a python part: a statement not before the look-back window of the
\* first 'import ' literal, at p, and a byte 0x01 at or after the statement
HasPythonPart(b) ==
    \E p \in Offsets(b) :
        /\ OccursAt(b, IMPORT_SP, p)
        /\ \A q \in 0..(p - 1) : ~OccursAt(b, IMPORT_SP, q)
        /\ p >= BACKWARD_LOOKUP_LEN
        /\ \E st \in (p - BACKWARD_LOOKUP_LEN)..Len(b) :
              /\ pythonStartMatchAt(b, st)
              /\ \E e \in st..Len(b) : OccursAt(b, SOH, e)

\* C3 as stated: a statement before the pdf span gives pythonFirst, one only
\* after it gives pdfFirst, and an 'import ' literal within 25 bytes of the
\* start of the buffer makes the classification fail with WeirdFileError.
C3_StatementDecidesOrder ==
    Processed =>
        /\ HasStatement(last.r.pdf.slices.head)
              => last.r.classified = "pythonFirst"
        /\ (~HasStatement(last.r.pdf.slices.head)
                /\ HasStatement(last.r.pdf.slices.tail))
              => last.r.classified = "pdfFirst"
        /\ ImportNearStart(LastBuf) => last.r.weird # "none"

\* C3 amended: a python part (statement and following 0x01) before the pdf
\* span gives pythonFirst; no python part there, and no raise, gives
\* pdfFirst; the search raises exactly when the first 'import ' literal of
\* the part it searches is within its first 25 bytes, and a raise in the
\* tail attempt gives status ERROR.
C3_PythonPartDecidesOrder ==
    Processed =>
        /\ ImportNearStart(last.r.pdf.slices.head) <=> last.r.weird = "head"
        /\ (~ImportNearStart(last.r.pdf.slices.head)
                /\ HasPythonPart(last.r.pdf.slices.head))
              => /\ last.r.classified = "pythonFirst"
                 /\ last.r.weird = "none"
                 /\ last.r.pythonSize > 0
        /\ (~ImportNearStart(last.r.pdf.slices.head)
                /\ ~HasPythonPart(last.r.pdf.slices.head))
              => /\ last.r.classified = "pdfFirst"
                 /\ ImportNearStart(last.r.pdf.slices.tail) <=> last.r.weird = "tail"
                 /\ last.r.weird = "tail"
                       => last.outcome = "return" /\ last.r.status = "ERROR"

C3_Witness ==
    /\ Processed
    /\ last.r.classified = "pythonFirst"
    /\ HasPythonPart(last.r.pdf.slices.head)
    /\ last.r.pdfSize > 0

Joined(slices) == slices.head \o slices.body \o slices.tail

\* C4: every triplet of pdfFinder and of pythonFinder joins back to the
\* buffer it was split from: head ++ body ++ tail = buffer.
C4_SplitIsLossless ==
    Processed =>
        /\ Joined(last.r.pdf.slices) = LastBuf
        /\ ~last.r.inHead.raised
              => Joined(last.r.inHead.slices) = last.r.pdf.slices.head
        /\ (last.r.tailTried /\ ~last.r.inTail.raised)
              => Joined(last.r.inTail.slices) = last.r.pdf.slices.tail

\* the pdf span is (start, -1) and the python span of the tail the sentinel
C4_Witness ==
    /\ Processed
    /\ last.r.pdf.span[1] >= 0 /\ last.r.pdf.span[2] = -1
    /\ last.r.tailTried /\ ~last.r.inTail.raised
    /\ last.r.inTail.span = <<-1, -1>>
    /\ Len(last.r.pdf.slices.tail) > 0

\* the offsets of the %%EOF at or after offset from
EOFsFrom(b, from) == {i \in from..Len(b) : OccursAt(b, PDF_EOF, i)}

\* s is the offset of the first %PDF- of b
FirstPdfStart(b, s) ==
    OccursAt(b, PDF_START, s) /\ \A q \in 0..(s - 1) : ~OccursAt(b, PDF_START, q)

NoSOHFrom(b, from) == \A e \in from..Len(b) : ~OccursAt(b, SOH, e)

\* the python spans computed while processing the last file
PythonSpans ==
    (IF last.r.inHead.raised THEN {}
     ELSE {[buf |-> last.r.pdf.slices.head, span |-> last.r.inHead.span]})
    \cup (IF last.r.tailTried /\ ~last.r.inTail.raised
          THEN {[buf |-> last.r.pdf.slices.tail, span |-> last.r.inTail.span]}
          ELSE {})

\* C5 as stated: when the start search or the end search fails, the span is
\* the sentinel (-1, -1).
C5_MissingMarkGivesSentinel ==
    Processed =>
        /\ \A s \in Offsets(LastBuf) :
              (FirstPdfStart(LastBuf, s) /\ Cardinality(EOFsFrom(LastBuf, s)) < 2)
                  => last.r.pdf.span = <<-1, -1>>
        /\ \A f \in PythonSpans :
              (f.span[1] >= 0 /\ NoSOHFrom(f.buf, f.span[1]))
                  => f.span = <<-1, -1>>

\* C5 amended: a failed start search gives the sentinel (-1, -1); a found
\* start with a failed end search gives (start, -1), of negative size.
C5_MissingMarkSpans ==
    Processed =>
        /\ (\A s \in Offsets(LastBuf) : ~OccursAt(LastBuf, PDF_START, s))
              => last.r.pdf.span = <<-1, -1>> /\ last.r.pdf.size = 0
        /\ \A s \in Offsets(LastBuf) :
              (FirstPdfStart(LastBuf, s) /\ Cardinality(EOFsFrom(LastBuf, s)) < 2)
                  => last.r.pdf.span = <<s, -1>> /\ last.r.pdf.size < 0
        /\ \A f \in PythonSpans :
              /\ f.span[1] = -1 => f.span[2] = -1
              /\ (\A p \in Offsets(f.buf) : ~OccursAt(f.buf, IMPORT_SP, p))
                    => f.span = <<-1, -1>>
              /\ f.span[1] >= 0
                    => /\ pythonStartMatchAt(f.buf, f.span[1])
                       /\ NoSOHFrom(f.buf, f.span[1]) <=> f.span[2] = -1

\* a python start with no 0x01 after it, though one comes before it
C5_Witness ==
    /\ Processed
    /\ ~last.r.inHead.raised
    /\ last.r.inHead.span[1] > 0 /\ last.r.inHead.span[2] = -1
    /\ ~NoSOHFrom(last.r.pdf.slices.head, 0)
    /\ last.r.pdf.span[1] >= 0 /\ last.r.pdf.span[2] = -1

\* C6: with a %PDF- and at least two %%EOF at or after the first %PDF-, the
\* pdf span runs from the first %PDF- to just after the second of those
\* %%EOF, so pdfSize > 0 and the pdf body ends with %%EOF.
C6_PdfEndsAfterSecondEOF ==
    Processed =>
        \A s \in {t \in Offsets(LastBuf) : FirstPdfStart(LastBuf, t)} :
        \A e \in EOFsFrom(LastBuf, s) :
            Cardinality({j \in s..(e - 1) : OccursAt(LastBuf, PDF_EOF, j)}) = 1
              => /\ last.r.pdf.span = <<s, e + Len(PDF_EOF)>>
                 /\ last.r.pdfSize = e + Len(PDF_EOF) - s
                 /\ last.r.pdfSize > 0
                 /\ Len(last.r.pdf.slices.body) = last.r.pdfSize
                 /\ OccursAt(last.r.pdf.slices.body, PDF_EOF,
                             Len(last.r.pdf.slices.body) - Len(PDF_EOF))

\* three %%EOF after the first %PDF-, and one before it in another buffer
C6_Witness ==
    /\ Processed
    /\ \E s \in Offsets(LastBuf) :
          /\ FirstPdfStart(LastBuf, s)
          /\ Cardinality(EOFsFrom(LastBuf, s)) >= 3
          /\ s > 0
    /\ last.r.pdfSize > 0

\* the python part as processBuf took it
PythonBody ==
    IF last.r.classified = "pythonFirst"
    THEN last.r.inHead.slices.body ELSE last.r.inTail.slices.body

\* the extensions of the files written for the last input file
LastExts == {w[2] : w \in {v \in outFiles : v[1] = last.index}}

ValidationAsked == options.write_python \/ options.check_python

\* C7: a failed validation gives the recorded status ERROR, whatever the
\* order found, and the python part goes to the .with-errors.py file and
\* never to the .py file; a passed validation leaves the status and writes
\* no .with-errors.py file; the validator is not called when neither
\* write_python nor check_python is set.
C7_ValidationOutcome ==
    (Processed /\ last.r.weird = "none") =>
        /\ last.r.validated <=> ValidationAsked
        /\ (last.r.validated /\ last.r.error # "")
              => /\ last.r.classified \in {"pythonFirst", "pdfFirst"}
                 /\ last.outcome = "return"
                 /\ LastRow.kind = "row" /\ LastRow.name = last.index
                 /\ LastRow.status = "ERROR"
                 /\ <<last.index, BROKEN_PYTHON_FILE_EXT, PythonBody>> \in outFiles
                 /\ ".py" \notin LastExts
                 /\ last.index \in {rejected[k] : k \in 1..Len(rejected)}
        /\ (last.r.validated /\ last.r.error = "")
              => /\ last.outcome = "return"
                 /\ LastRow.kind = "row" /\ LastRow.name = last.index
                 /\ LastRow.status = last.r.classified
                 /\ BROKEN_PYTHON_FILE_EXT \notin LastExts
                 /\ options.write_python
                       <=> <<last.index, ".py", PythonBody>> \in outFiles

\* a broken python part found before the pdf
C7_Witness ==
    /\ Processed
    /\ last.r.validated /\ last.r.error # ""
    /\ last.r.classified = "pythonFirst"
    /\ LastRow.status = "ERROR"

IMPORT_WORD == <<"i", "m", "p", "o", "r", "t">>

\* no %PDF- and no import anywhere in b
NoPdfNoImport(b) ==
    \A i \in Offsets(b) : ~OccursAt(b, PDF_START, i) /\ ~OccursAt(b, IMPORT_WORD, i)

\* C8 as stated: a buffer with no %PDF- and no import has sentinel spans,
\* sizes <= 0, is not validated and is not recorded as ERROR.
C8_NothingFoundNotValidated ==
    (Processed /\ NoPdfNoImport(LastBuf)) =>
        /\ last.r.pdf.span = <<-1, -1>>
        /\ last.r.inHead.span = <<-1, -1>>
        /\ last.r.inTail.span = <<-1, -1>>
        /\ last.r.pdfSize <= 0 /\ last.r.pythonSize <= 0
        /\ ~last.r.validated
        /\ LastRow.status # "ERROR"

\* C8 amended: such a buffer has sentinel spans and sizes 0; the validator
\* is called, on the empty python part, exactly when write_python or
\* check_python is set, and finds no error; the recorded status is pdfFirst.
C8_NothingFound ==
    (Processed /\ NoPdfNoImport(LastBuf)) =>
        /\ last.r.pdf.span = <<-1, -1>>
        /\ ~last.r.inHead.raised /\ last.r.inHead.span = <<-1, -1>>
        /\ last.r.tailTried
        /\ ~last.r.inTail.raised /\ last.r.inTail.span = <<-1, -1>>
        /\ last.r.pdfSize = 0 /\ last.r.pythonSize = 0
        /\ last.r.validated <=> ValidationAsked
        /\ PythonBody = <<>>
        /\ last.r.error = ""
        /\ last.outcome = "return"
        /\ LastRow.kind = "row" /\ LastRow.name = last.index
        /\ LastRow.status = "pdfFirst"
        /\ LastRow.pdfSize = 0 /\ LastRow.pythonSize = 0
        /\ BROKEN_PYTHON_FILE_EXT \notin LastExts

C8_Witness ==
    /\ Processed
    /\ NoPdfNoImport(LastBuf)
    /\ Len(LastBuf) > 1
    /\ last.r.validated
    /\ LastRow.status = "pdfFirst"

RECURSIVE TotalLen(_, _)
TotalLen(files, k) == IF k = 0 THEN 0 ELSE Len(files[k]) + TotalLen(files, k - 1)

Lens == {Len(inFiles[i]) : i \in 1..Len(inFiles)}

\* the lines of the statistics file after the rows
SummaryLines == SubSeq(statsFile, Len(inFiles) + 1, Len(statsFile))

\* C9: after a run there is one Stat Row per input file, in input order, and
\* the summary reports the file count, the largest and the smallest buffer
\* length each with a file that has it, the total and the truncated average;
\* with no Stat Row the summary is the separator line alone.
C9_Summary ==
    pc = "done" =>
        /\ Len(statsData) = Len(inFiles)
        /\ \A i \in 1..Len(inFiles) :
              /\ statsData[i].bufLen = Len(inFiles[i])
              /\ statsFile[i].kind = "row" /\ statsFile[i].name = inFileNames[i]
              /\ statsFile[i].bufLen = Len(inFiles[i])
        /\ Len(inFiles) = 0 => statsFile = <<Separator>>
        /\ Len(inFiles) > 0 =>
              /\ Len(SummaryLines) = 6
              /\ SummaryLines[1] = Separator
              /\ SummaryLines[2] = SummaryLine("number of files", Len(inFiles), 0)
              /\ SummaryLines[3].kind = "max bufLen"
              /\ SummaryLines[3].value = Max(Lens)
              /\ Len(inFiles[SummaryLines[3].name]) = Max(Lens)
              /\ SummaryLines[4].kind = "min bufLen"
              /\ SummaryLines[4].value = Min(Lens)
              /\ Len(inFiles[SummaryLines[4].name]) = Min(Lens)
              /\ SummaryLines[5] = SummaryLine("total unzipped size",
                                               TotalLen(inFiles, Len(inFiles)), 0)
              /\ SummaryLines[6] = SummaryLine("average unzipped size",
                     TotalLen(inFiles, Len(inFiles)) \div Len(inFiles), 0)

\* two files, the second the shorter, and an average that is truncated
C9_Witness ==
    /\ pc = "done"
    /\ Len(inFiles) = 2
    /\ Len(inFiles[2]) < Len(inFiles[1])
    /\ (Len(inFiles[1]) + Len(inFiles[2])) % 2 = 1

\* C10 as stated: for every headsize, after k calls of writeHead the stream
\* holds k * headsize bytes.
C10_SlotIsHeadsize == Len(headfh) = Len(heads) * headsize

\* byte j (from 1) of the slot of a head
SlotByte(head, j) == IF j <= Len(head) THEN head[j] ELSE "NUL"

\* C10 amended: for every headsize >= 0, after k calls of writeHead the
\* stream holds k * headsize bytes, and the slot of call i, at offset
\* (i - 1) * headsize, is the head cut to headsize bytes or padded with
\* zero bytes up to it.
C10_SlotIsNonNegativeHeadsize ==
    headsize >= 0 =>
        /\ Len(headfh) = Len(heads) * headsize
        /\ \A i \in 1..Len(heads) : \A j \in 1..headsize :
              headfh[(i - 1) * headsize + j] = SlotByte(heads[i], j)

\* a padded head followed by a truncated one
C10_Witness ==
    /\ headsize > 0
    /\ Len(heads) = 2
    /\ Len(heads[1]) < headsize
    /\ Len(heads[2]) > headsize

\* every (spanSize, triplet) a splitting unit returned for the last file:
\* pdfFinder on the buffer, pythonFinder on the head and, when it was
\* tried, on the tail of the pdf split
Splits ==
    {[unit |-> "pdf", buf |-> LastBuf, size |-> last.r.pdf.size,
      span |-> last.r.pdf.span, body |-> last.r.pdf.slices.body]}
    \cup (IF last.r.inHead.raised THEN {}
          ELSE {[unit |-> "python", buf |-> last.r.pdf.slices.head,
                 size |-> last.r.inHead.size, span |-> last.r.inHead.span,
                 body |-> last.r.inHead.slices.body]})
    \cup (IF last.r.tailTried /\ ~last.r.inTail.raised
          THEN {[unit |-> "python", buf |-> last.r.pdf.slices.tail,
                 size |-> last.r.inTail.size, span |-> last.r.inTail.span,
                 body |-> last.r.inTail.slices.body]}
          ELSE {})

\* the start mark of the unit stands at offset s of b
StartMarkAt(unit, b, s) ==
    IF unit = "pdf" THEN OccursAt(b, PDF_START, s) ELSE pythonStartMatchAt(b, s)

\* the end mark of the unit ends at offset e of b, after a start at s
EndMarkAt(unit, b, s, e) ==
    IF unit = "pdf"
    THEN /\ OccursAt(b, PDF_EOF, e - Len(PDF_EOF))
         /\ Cardinality({j \in s..(e - Len(PDF_EOF)) : OccursAt(b, PDF_EOF, j)}) = 2
    ELSE /\ OccursAt(b, SOH, e)
         /\ \A j \in s..(e - 1) : ~OccursAt(b, SOH, j)

\* the start mark and the end mark were both found
BothMarksFound(f) == f.span[1] # -1 /\ f.span[2] # -1

\* C11: for both splitting units, the returned spanSize is positive exactly
\* when the start mark and the end mark were both found; the marks then stand
\* in the buffer where the span says, and spanSize is the length of the
\* triplet's body. A spanSize that is not positive means a mark was missing.
C11_SizePositiveIffBothMarks ==
    Processed =>
        \A f \in Splits :
            /\ f.size > 0 <=> BothMarksFound(f)
            /\ f.size > 0
                  => /\ StartMarkAt(f.unit, f.buf, f.span[1])
                     /\ EndMarkAt(f.unit, f.buf, f.span[1], f.span[2])
                     /\ f.size = Len(f.body)
                     /\ f.body = Slice(f.buf, f.span[1], f.span[2])
            /\ f.size <= 0 => f.span[1] = -1 \/ f.span[2] = -1
            /\ f.span = <<-1, -1>> => f.size = 0 /\ f.body = <<>>

\* one file with a whole pdf part that does not start the buffer, a python
\* part found whole, and a python start with no 0x01 after it, whose span has
\* a negative size and a body that is not empty
C11_Witness ==
    /\ Processed
    /\ last.r.pdf.size > 0 /\ last.r.pdf.span[1] > 0
    /\ ~last.r.inHead.raised
    /\ last.r.inHead.size < 0 /\ last.r.inHead.span[1] > 0
    /\ last.r.inHead.slices.body # <<>>
    /\ last.r.tailTried /\ ~last.r.inTail.raised
    /\ last.r.inTail.size > 0 /\ last.r.inTail.span[1] > 0
    /\ Len(last.r.inTail.slices.body) = last.r.inTail.size

====
